---- MODULE Spec2Model ----
(***************************************************************************)
(* Model of mkdocs_extra_sass_mathshim/plugin.py: the Sass shim rewrite,   *)
(* the svg-load resolution with its on-disk cache, and the plugin's entry  *)
(* point cache.  Texts are sequences of tokens (each token a string of the *)
(* source text that the patterns of the code never split); file contents   *)
(* and downloads are sequences of byte values / code points.               *)
(***************************************************************************)
EXTENDS Integers, Sequences, FiniteSets, TLC

VARIABLES
    cache,              \* the user cache directory: cache file name -> bytes
    last,               \* observation of the last _fetch_and_cache call
    pinned,             \* first call that downloaded and cached: [url, ret]
    mdi_base_url,       \* _AvailableSassEntry._mdi_base_url
    octicons_base_url,  \* _AvailableSassEntry._octicons_base_url
    svg_text,           \* the text given to _inline_svg_loads (its matches)
    sub_pc,             \* position of pattern.sub: "idle" or "sub"
    sub_pending,        \* matches pattern.sub has not yet handed to replacer
    sub_out,            \* the replacements made so far
    sub_result,         \* how the last _inline_svg_loads ended
    rep,                \* observation of the last replacer call
    scss_calls,         \* the calls the source stylesheet is written from
    scss_source,        \* save_to's scss_source
    shim_done,          \* whether save_to's substitutions have run
    entry_point,        \* ExtraSassPlugin.__entry_point
    plugin_mdi,         \* ExtraSassPlugin.__mdi_base_url
    plugin_oct,         \* ExtraSassPlugin.__octicons_base_url
    strict,             \* config["strict"]
    builds,             \* _build_entry runs since the last on_config
    raises,             \* _build_entry runs that raised since then
    hooks,              \* hook calls since the last on_config
    hook_result,        \* observation of the last hook call
    configured          \* whether on_config has run

vars == <<cache, last, pinned, mdi_base_url, octicons_base_url, svg_text,
          sub_pc, sub_pending, sub_out, sub_result, rep, scss_calls,
          scss_source, shim_done, entry_point, plugin_mdi, plugin_oct, strict,
          builds, raises, hooks, hook_result, configured>>

fetch_vars == <<cache, last, pinned>>
svg_vars == <<mdi_base_url, octicons_base_url, svg_text, sub_pc, sub_pending,
              sub_out, sub_result, rep>>
shim_vars == <<scss_calls, scss_source, shim_done>>
plugin_vars == <<entry_point, plugin_mdi, plugin_oct, strict, builds, raises,
                 hooks, hook_result, configured>>

----------------------------------------------------------------------------
(* Bounds                                                                  *)

\* longest SVG text a download returns
MaxLen == 2
\* most calls in a stylesheet
MaxCalls == 2
\* most hook calls between two on_config calls
MaxHooks == 3

----------------------------------------------------------------------------
(* Sequences                                                               *)

RECURSIVE Flatten(_)
Flatten(ss) == IF ss = <<>> THEN <<>> ELSE Head(ss) \o Flatten(Tail(ss))

Range(s) == {s[i] : i \in DOMAIN s}

SeqsUpTo(S, n) == UNION {[1..k -> S] : k \in 0..n}

Prefix(s, k) == SubSeq(s, 1, k)

----------------------------------------------------------------------------
(* Encodings: str.encode("utf-8"), text-mode reading, base64.b64encode     *)

\* code points of the SVG texts: carriage return and "<"
SvgChars == {13, 60}
Content == SeqsUpTo(SvgChars, MaxLen)

\* str.encode("utf-8") of one code point below 2048
Utf8Char(c) == IF c < 128 THEN <<c>> ELSE <<192 + (c \div 64), 128 + (c % 64)>>

Utf8Encode(text) == Flatten([i \in DOMAIN text |-> Utf8Char(text[i])])

\* decoding of the bytes of a cache file; the files hold one-byte characters
RECURSIVE Utf8Decode(_)
Utf8Decode(bytes) ==
    IF bytes = <<>> THEN <<>>
    ELSE IF Head(bytes) < 128 THEN <<Head(bytes)>> \o Utf8Decode(Tail(bytes))
    ELSE <<(Head(bytes) - 192) * 64 + (bytes[2] - 128)>>
             \o Utf8Decode(Tail(Tail(bytes)))

\* io.open(..., "r") reads with universal newlines: "\r\n" and "\r" -> "\n"
RECURSIVE UniversalNewlines(_)
UniversalNewlines(text) ==
    IF text = <<>> THEN <<>>
    ELSE IF Head(text) = 13
         THEN IF Len(text) >= 2 /\ text[2] = 10
              THEN <<10>> \o UniversalNewlines(Tail(Tail(text)))
              ELSE <<10>> \o UniversalNewlines(Tail(text))
         ELSE <<Head(text)>> \o UniversalNewlines(Tail(text))

\* io.open(cache_file, "r", encoding="utf-8").read()
ReadText(bytes) == UniversalNewlines(Utf8Decode(bytes))

\* Path.write_text(svg_data, encoding="utf-8"): "\n" is written as os.linesep,
\* which is "\n" here, so the bytes are the encoding of the text
WriteBytes(text) == Utf8Encode(text)

B64Alphabet ==
    <<"A","B","C","D","E","F","G","H","I","J","K","L","M","N","O","P",
      "Q","R","S","T","U","V","W","X","Y","Z","a","b","c","d","e","f",
      "g","h","i","j","k","l","m","n","o","p","q","r","s","t","u","v",
      "w","x","y","z","0","1","2","3","4","5","6","7","8","9","+","/">>

B64Char(n) == B64Alphabet[n + 1]

RECURSIVE b64encode(_)
b64encode(bytes) ==
    IF bytes = <<>> THEN <<>>
    ELSE IF Len(bytes) = 1
    THEN <<B64Char(bytes[1] \div 4), B64Char((bytes[1] % 4) * 16), "=", "=">>
    ELSE IF Len(bytes) = 2
    THEN <<B64Char(bytes[1] \div 4),
           B64Char((bytes[1] % 4) * 16 + (bytes[2] \div 16)),
           B64Char((bytes[2] % 16) * 4), "=">>
    ELSE <<B64Char(bytes[1] \div 4),
           B64Char((bytes[1] % 4) * 16 + (bytes[2] \div 16)),
           B64Char((bytes[2] % 16) * 4 + (bytes[3] \div 64)),
           B64Char(bytes[3] % 64)>>
         \o b64encode(SubSeq(bytes, 4, Len(bytes)))

\* base64.b64encode(svg_data.encode("utf-8")).decode("utf-8")
Base64Of(text) == b64encode(Utf8Encode(text))

----------------------------------------------------------------------------
(* The cache directory and _fetch_and_cache                                *)

\* cache_dir / f"{sha256(remote_url).hexdigest()}.svg": the hash taken as
\* injective, the file name is the URL under a "sha256" tag
CacheFile(remote_url) == <<"sha256">> \o remote_url \o <<".svg">>

\* cache_file.unlink() that succeeded
Unlink(c, f) == [g \in DOMAIN c \ {f} |-> c[g]]

\* the directory after f holds bytes
WithFile(c, f, bytes) ==
    [g \in DOMAIN c \cup {f} |-> IF g = f THEN bytes ELSE c[g]]

\* What the outside world does to one call: whether the existing cache file
\* can be read, whether unlink succeeds, what requests.get/raise_for_status
\* give (ok = FALSE: an exception or an error status), and how many bytes the
\* disk takes from write_text before it raises (-1: the file cannot even be
\* opened; at least the length of the data: the write succeeds).
NetOutcomes ==
    {[ok |-> FALSE, text |-> <<>>]} \cup {[ok |-> TRUE, text |-> t] : t \in Content}

Env == [read : BOOLEAN, unlink : BOOLEAN, net : NetOutcomes, disk : -1..MaxLen]

\* lines 407-411: write_text creates the file, then writes; a write that
\* raises leaves what the disk took
WriteCache(c, cache_file, svg_data, env) ==
    LET bytes == WriteBytes(svg_data)
    IN  IF env.disk < 0 THEN c
        ELSE IF env.disk >= Len(bytes) THEN WithFile(c, cache_file, bytes)
        ELSE WithFile(c, cache_file, Prefix(bytes, env.disk))

WriteSucceeds(svg_data, env) == env.disk >= Len(WriteBytes(svg_data))

\* lines 397-414: the download, the cache write, the return value
Download(c, cache_file, env) ==
    IF ~env.net.ok
    THEN [kind |-> "fetch_failed", ret |-> <<>>, raised |-> FALSE, net |-> TRUE,
          data |-> <<>>, cache |-> c]
    ELSE [kind |-> IF WriteSucceeds(env.net.text, env) THEN "cached"
                   ELSE "write_failed",
          ret |-> Base64Of(env.net.text), raised |-> FALSE, net |-> TRUE,
          data |-> env.net.text,
          cache |-> WriteCache(c, cache_file, env.net.text, env)]

\* lines 383-395: the cached file is read and returned; a read that raises
\* unlinks the file (outside any try) and falls through to the download
fetch_and_cache(c, remote_url, env) ==
    LET cache_file == CacheFile(remote_url)
    IN  IF cache_file \in DOMAIN c
        THEN IF env.read
             THEN [kind |-> "hit", ret |-> Base64Of(ReadText(c[cache_file])),
                   raised |-> FALSE, net |-> FALSE, data |-> <<>>, cache |-> c]
             ELSE IF ~env.unlink
             THEN [kind |-> "unlink_raised", ret |-> <<>>, raised |-> TRUE,
                   net |-> FALSE, data |-> <<>>, cache |-> c]
             ELSE Download(Unlink(c, cache_file), cache_file, env)
        ELSE Download(c, cache_file, env)

\* what a call leaves to be observed
Observed(c, remote_url, r) ==
    [url |-> remote_url, existed |-> CacheFile(remote_url) \in DOMAIN c,
     kind |-> r.kind, ret |-> r.ret, raised |-> r.raised, net |-> r.net,
     data |-> r.data]

NoCall ==
    [url |-> <<>>, existed |-> FALSE, kind |-> "none", ret |-> <<>>,
     raised |-> FALSE, net |-> FALSE, data |-> <<>>]

NotPinned == [set |-> FALSE, url |-> <<>>, ret |-> <<>>, later |-> FALSE]

\* the first call that downloaded and cached, and whether a call came after it
Pin(p, remote_url, r) ==
    IF p.set THEN [p EXCEPT !.later = TRUE]
    ELSE IF r.kind = "cached"
    THEN [set |-> TRUE, url |-> remote_url, ret |-> r.ret, later |-> FALSE]
    ELSE p

\* Python's None among the URLs
NoneValue == <<"None">>

NoReplacement ==
    [raw |-> <<>>, branch |-> "none", url |-> <<>>, fetch |-> NoCall,
     raised |-> FALSE, out |-> <<>>, mdi |-> <<>>, oct |-> <<>>]

NoHook ==
    [hook |-> "none", built |-> FALSE, compiled |-> FALSE, raised |-> FALSE,
     link |-> <<>>]

\* the parts of the state a specification leaves alone
FetchIdle ==
    /\ cache = <<>>
    /\ last = NoCall
    /\ pinned = NotPinned

SvgIdle ==
    /\ mdi_base_url = <<>>
    /\ octicons_base_url = <<>>
    /\ svg_text = <<>>
    /\ sub_pc = "idle"
    /\ sub_pending = <<>>
    /\ sub_out = <<>>
    /\ sub_result = "none"
    /\ rep = NoReplacement

ShimIdle ==
    /\ scss_calls = <<>>
    /\ scss_source = <<>>
    /\ shim_done = FALSE

PluginIdle ==
    /\ entry_point = [kind |-> "None"]
    /\ plugin_mdi = NoneValue
    /\ plugin_oct = NoneValue
    /\ strict = FALSE
    /\ builds = 0
    /\ raises = 0
    /\ hooks = 0
    /\ hook_result = NoHook
    /\ configured = FALSE

\* the remote URLs of the direct calls
Urls == {<<"https://", "h", "/", "a.svg">>, <<"https://", "h", "/", "b.svg">>}

\* cache directories a run can start from: any of the files, each holding an
\* SVG text written by an earlier run
InitialCaches ==
    UNION {[{CacheFile(u) : u \in S} -> {WriteBytes(t) : t \in Content}] :
              S \in SUBSET Urls}

Init ==
    /\ cache \in InitialCaches
    /\ last = NoCall
    /\ pinned = NotPinned
    /\ SvgIdle
    /\ ShimIdle
    /\ PluginIdle

\* one call of _fetch_and_cache(remote_url)
FetchAndCache(remote_url, env) ==
    LET r == fetch_and_cache(cache, remote_url, env)
    IN  /\ cache' = r.cache
        /\ last' = Observed(cache, remote_url, r)
        /\ pinned' = Pin(pinned, remote_url, r)
        /\ UNCHANGED <<svg_vars, shim_vars, plugin_vars>>

Next == \E u \in Urls, env \in Env : FetchAndCache(u, env)

Spec == Init /\ [][Next]_vars

----------------------------------------------------------------------------
(* _inline_svg_loads: pattern.sub(replacer, scss_text)                     *)

\* str.strip() of the quoted path
RECURSIVE LStrip(_)
LStrip(s) == IF s # <<>> /\ Head(s) = " " THEN LStrip(Tail(s)) ELSE s

RECURSIVE RStrip(_)
RStrip(s) ==
    IF s # <<>> /\ s[Len(s)] = " " THEN RStrip(SubSeq(s, 1, Len(s) - 1)) ELSE s

Strip(s) == RStrip(LStrip(s))

\* the tokens that end in a slash
SlashTokens == {"/", "http://", "https://", "@mdi/svg/svg/", "@primer/", "*/"}

\* os.path.basename: what follows the last slash
RECURSIVE basename(_)
basename(p) ==
    IF p = <<>> THEN <<>>
    ELSE IF p[Len(p)] \in SlashTokens THEN <<>>
    ELSE basename(SubSeq(p, 1, Len(p) - 1)) \o <<p[Len(p)]>>

StartsWith(p, tok) == p # <<>> /\ Head(p) = tok

\* match.group(0) of svg-load("<raw>"), raw being what the quotes hold
FullText(raw) == <<"svg-load(", "\"">> \o raw \o <<"\"", ")">>

Inlined(full_text, fetched) ==
    <<"/*", " ">> \o full_text \o <<" => inlined ", "*/",
      " url('data:image/svg+xml;base64,">> \o fetched \o <<"')">>

Comment(full_text, why) == <<"/*", " ">> \o full_text \o why \o <<" ", "*/">>

\* lines 340-343, 350-353, 360-363: fetch, then `if not fetched`
Resolve(c, full_text, branch, remote_url, why, env) ==
    LET r == fetch_and_cache(c, remote_url, env)
    IN  [branch |-> branch, url |-> remote_url,
         fetch |-> Observed(c, remote_url, r), raised |-> r.raised,
         cache |-> r.cache,
         out |-> IF r.raised THEN <<>>
                 ELSE IF r.ret = <<>> THEN Comment(full_text, why)
                 ELSE Inlined(full_text, r.ret)]

\* lines 334-367: the replacement of one match
replacer(c, mdi, oct, raw, env) ==
    LET full_text == FullText(raw)
        svg_path == Strip(raw)
    IN  IF StartsWith(svg_path, "http://") \/ StartsWith(svg_path, "https://")
        THEN Resolve(c, full_text, "http", svg_path,
                     <<" => FAILED to fetch">>, env)
        ELSE IF mdi # <<>> /\ StartsWith(svg_path, "@mdi/svg/svg/")
        THEN Resolve(c, full_text, "mdi", mdi \o <<"/">> \o basename(svg_path),
                     <<" => MDI fetch failed: ">> \o mdi \o <<"/">> \o basename(svg_path),
                     env)
        ELSE IF oct # <<>> /\ "octicons" \in Range(svg_path)
        THEN Resolve(c, full_text, "octicons",
                     oct \o <<"/">> \o basename(svg_path),
                     <<" => Octicons fetch failed: ">> \o oct \o <<"/">>
                         \o basename(svg_path), env)
        ELSE [branch |-> "unknown", url |-> <<>>, fetch |-> NoCall,
              raised |-> FALSE, cache |-> c,
              out |-> Comment(full_text,
                        <<" => no known base URL or not an http link">>)]

\* lines 216-220: `url or ""`
OrEmpty(url) == IF url = NoneValue THEN <<>> ELSE url

\* the quoted paths of the stylesheets
SvgPaths ==
    {<<"https://", "h", "/", "a.svg">>,
     <<"http://", "h", "/", "b.svg">>,
     <<" ", "https://", "h", "/", "a.svg">>,
     <<"https://", "h", "/", "*/", "a.svg">>,
     <<"@mdi/svg/svg/", "a.svg">>,
     <<"@mdi/svg/svg/", "octicons", ".svg">>,
     <<"@primer/", "octicons", "/", "a.svg">>,
     <<"img", "/", "a.svg">>}

\* the stylesheets: the svg-load matches of each, in order
SvgTexts ==
    {<<p>> : p \in SvgPaths}
        \cup {<<<<"https://", "h", "/", "a.svg">>, <<"https://", "h", "/", "a.svg">>>>,
              <<<<"@mdi/svg/svg/", "a.svg">>, <<"@primer/", "octicons", "/", "a.svg">>>>}

MdiBaseUrls == {NoneValue, <<>>, <<"https://mdi">>}
OctBaseUrls == {NoneValue, <<>>, <<"https://oct">>}

InitSvg ==
    /\ cache = <<>>
    /\ last = NoCall
    /\ pinned = NotPinned
    /\ mdi_base_url = <<>>
    /\ octicons_base_url = <<>>
    /\ svg_text \in SvgTexts
    /\ sub_pc = "idle"
    /\ sub_pending = <<>>
    /\ sub_out = <<>>
    /\ sub_result = "none"
    /\ rep = NoReplacement
    /\ ShimIdle
    /\ PluginIdle

\* entry_point.set_mdi_base_url(url): _build_entry sets the base URLs of a
\* new entry before its save_to
set_mdi_base_url(url) ==
    /\ sub_result = "none"
    /\ mdi_base_url' = OrEmpty(url)
    /\ UNCHANGED <<fetch_vars, octicons_base_url, svg_text, sub_pc, sub_pending,
                   sub_out, sub_result, rep, shim_vars, plugin_vars>>

\* entry_point.set_octicons_base_url(url)
set_octicons_base_url(url) ==
    /\ sub_result = "none"
    /\ octicons_base_url' = OrEmpty(url)
    /\ UNCHANGED <<fetch_vars, mdi_base_url, svg_text, sub_pc, sub_pending,
                   sub_out, sub_result, rep, shim_vars, plugin_vars>>

\* _inline_svg_loads is entered: pattern.sub finds the matches
InlineSvgLoadsBegin ==
    /\ sub_pc = "idle"
    /\ sub_pc' = "sub"
    /\ sub_pending' = svg_text
    /\ sub_out' = <<>>
    /\ sub_result' = "running"
    /\ rep' = NoReplacement
    /\ UNCHANGED <<fetch_vars, mdi_base_url, octicons_base_url, svg_text,
                   shim_vars, plugin_vars>>

\* pattern.sub calls replacer on the next match; an exception of replacer
\* leaves _inline_svg_loads (and save_to)
Replacer(env) ==
    /\ sub_pc = "sub"
    /\ sub_pending # <<>>
    /\ LET r == replacer(cache, mdi_base_url, octicons_base_url,
                         Head(sub_pending), env)
       IN  /\ cache' = r.cache
           /\ last' = IF r.branch = "unknown" THEN last ELSE r.fetch
           /\ rep' = [raw |-> Head(sub_pending), branch |-> r.branch,
                      url |-> r.url, fetch |-> r.fetch, raised |-> r.raised,
                      out |-> r.out, mdi |-> mdi_base_url,
                      oct |-> octicons_base_url]
           /\ IF r.raised
              THEN /\ sub_pc' = "idle"
                   /\ sub_pending' = <<>>
                   /\ sub_out' = <<>>
                   /\ sub_result' = "raised"
              ELSE /\ sub_pc' = "sub"
                   /\ sub_pending' = Tail(sub_pending)
                   /\ sub_out' = sub_out \o r.out
                   /\ sub_result' = "running"
    /\ UNCHANGED <<pinned, mdi_base_url, octicons_base_url, svg_text, shim_vars,
                   plugin_vars>>

\* pattern.sub returns the rewritten text
InlineSvgLoadsReturn ==
    /\ sub_pc = "sub"
    /\ sub_pending = <<>>
    /\ sub_pc' = "idle"
    /\ sub_result' = "returned"
    /\ UNCHANGED <<fetch_vars, mdi_base_url, octicons_base_url, svg_text,
                   sub_pending, sub_out, rep, shim_vars, plugin_vars>>

NextSvg ==
    \/ \E url \in MdiBaseUrls : set_mdi_base_url(url)
    \/ \E url \in OctBaseUrls : set_octicons_base_url(url)
    \/ InlineSvgLoadsBegin
    \/ \E env \in Env : Replacer(env)
    \/ InlineSvgLoadsReturn

SpecSvg == InitSvg /\ [][NextSvg]_vars

----------------------------------------------------------------------------
(* save_to's substitutions (lines 235-260), on token sequences.  re.sub     *)
(* scans from the left; where the pattern matches it puts the replacement  *)
(* and goes on after the match, elsewhere it keeps the token.              *)

\* smallest j >= i with s[j] = tok, or 0
IndexFrom(s, i, tok) ==
    IF \E j \in i..Len(s) : s[j] = tok
    THEN CHOOSE j \in i..Len(s) :
             s[j] = tok /\ \A k \in i..(j - 1) : s[k] # tok
    ELSE 0

AllSpaces(s, lo, hi) == \A k \in lo..hi : s[k] = " "

\* the same with a greedy group, X+, which keeps the trailing spaces
GreedyGroup(s, lo, hi) ==
    IF AllSpaces(s, lo, hi) THEN <<s[hi]>>
    ELSE LET a == CHOOSE k \in lo..hi : s[k] # " " /\ AllSpaces(s, lo, k - 1)
         IN  SubSeq(s, a, hi)

\* what \s*(X+?)\s* captures of the non-empty s[lo..hi], every token of which
\* X accepts: the region without the spaces at its ends (the greedy \s* takes
\* the leading ones, the lazy group stops before the trailing ones); of a
\* region of spaces alone the group is left the last
LazyGroup(s, lo, hi) ==
    IF AllSpaces(s, lo, hi) THEN <<s[hi]>>
    ELSE LET a == CHOOSE k \in lo..hi : s[k] # " " /\ AllSpaces(s, lo, k - 1)
             e == CHOOSE k \in lo..hi : s[k] # " " /\ AllSpaces(s, k + 1, hi)
         IN  SubSeq(s, a, e)

NoMatch == [ok |-> FALSE, repl |-> <<>>, next |-> 0]

\* r"math\.round\(" -> "round("
MatchMathRound(s, i) ==
    IF s[i] = "math.round("
    THEN [ok |-> TRUE, repl |-> <<"round(">>, next |-> i + 1]
    ELSE NoMatch

\* r"math\.div\(\s*([^,]+?)\s*,\s*([^)]+?)\s*\)" -> r"(\1 / \2)": the first
\* group ends before the first comma, the second before the next ")"
MatchMathDiv(s, i) ==
    IF s[i] # "math.div(" THEN NoMatch
    ELSE LET c == IndexFrom(s, i + 1, ",")
             r == IF c = 0 THEN 0 ELSE IndexFrom(s, c + 1, ")")
         IN  IF c = 0 \/ c = i + 1 \/ r = 0 \/ r = c + 1 THEN NoMatch
             ELSE [ok |-> TRUE,
                   repl |-> <<"(">> \o LazyGroup(s, i + 1, c - 1)
                               \o <<" ", "/", " ">>
                               \o LazyGroup(s, c + 1, r - 1) \o <<")">>,
                   next |-> r + 1]

\* r"math\.unit\(\s*([^)]+?)\s*\)" -> r"unit(\1)"
MatchMathUnit(s, i) ==
    IF s[i] # "math.unit(" THEN NoMatch
    ELSE LET r == IndexFrom(s, i + 1, ")")
         IN  IF r = 0 \/ r = i + 1 THEN NoMatch
             ELSE [ok |-> TRUE,
                   repl |-> <<"unit(">> \o LazyGroup(s, i + 1, r - 1) \o <<")">>,
                   next |-> r + 1]

\* whether s[c] is a comma followed by spaces and then the quoted channel name
CommaBefore(s, c, quoted, r) ==
    /\ s[c] = ","
    /\ \E h \in (c + 1)..(r - 1) : s[h] = quoted /\ AllSpaces(s, c + 1, h - 1)

\* r"color\.channel\s*\(\s*([^\)]+),\s*['\"]<name>['\"].*?\)" -> r"<name>(\1)":
\* the greedy group cannot pass the first ")", and gives back down to the last
\* comma that the quoted name follows; .*? then runs to that ")"
MatchChannel(s, i, quoted, name) ==
    IF s[i] # "color.channel(" THEN NoMatch
    ELSE LET r == IndexFrom(s, i + 1, ")")
             valid == IF r = 0 THEN {}
                      ELSE {c \in (i + 2)..(r - 1) : CommaBefore(s, c, quoted, r)}
         IN  IF valid = {} THEN NoMatch
             ELSE LET c == CHOOSE x \in valid : \A y \in valid : y <= x
                      a == IF AllSpaces(s, i + 1, c - 1) THEN c - 1
                           ELSE CHOOSE k \in (i + 1)..(c - 1) :
                                    s[k] # " " /\ AllSpaces(s, i + 1, k - 1)
                  IN  [ok |-> TRUE,
                       repl |-> <<name>> \o SubSeq(s, a, c - 1) \o <<")">>,
                       next |-> r + 1]

MatchAt(pattern, s, i) ==
    CASE pattern = "round" -> MatchMathRound(s, i)
      [] pattern = "div" -> MatchMathDiv(s, i)
      [] pattern = "unit" -> MatchMathUnit(s, i)
      [] pattern = "hue" -> MatchChannel(s, i, "\"hue\"", "hue(")
      [] pattern = "saturation" ->
             MatchChannel(s, i, "\"saturation\"", "saturation(")
      [] pattern = "lightness" ->
             MatchChannel(s, i, "\"lightness\"", "lightness(")

\* re.sub(pattern, repl, s), from position i on
RECURSIVE ReSub(_, _, _)
ReSub(pattern, s, i) ==
    IF i > Len(s) THEN <<>>
    ELSE LET m == MatchAt(pattern, s, i)
         IN  IF m.ok THEN m.repl \o ReSub(pattern, s, m.next)
             ELSE <<s[i]>> \o ReSub(pattern, s, i + 1)

SubMathRound(s) == ReSub("round", s, 1)
SubMathDiv(s) == ReSub("div", s, 1)
SubMathUnit(s) == ReSub("unit", s, 1)
SubHue(s) == ReSub("hue", s, 1)
SubSaturation(s) == ReSub("saturation", s, 1)
SubLightness(s) == ReSub("lightness", s, 1)

\* lines 235-260, in the order of the code
Shim(s) ==
    SubLightness(SubSaturation(SubHue(SubMathUnit(SubMathDiv(SubMathRound(s))))))

\* The stylesheets: calls of the known forms, each closed by ";".  A call is
\* [f, a, b, sp, ex]: the function, its arguments (b: the second argument of
\* math.div, the quoted channel of color.channel), sp: spaces inside the
\* parentheses, ex: a further `$space` argument of color.channel.
Pad(call) == IF call.sp THEN <<" ">> ELSE <<>>

Render(call) ==
    CASE call.f = "round" ->
             <<"math.round(">> \o Pad(call) \o call.a \o Pad(call) \o <<")">>
      [] call.f = "div" ->
             <<"math.div(">> \o Pad(call) \o call.a \o <<",", " ">> \o call.b
                 \o Pad(call) \o <<")">>
      [] call.f = "unit" ->
             <<"math.unit(">> \o Pad(call) \o call.a \o Pad(call) \o <<")">>
      [] call.f = "channel" ->
             <<"color.channel(">> \o Pad(call) \o call.a \o <<",", " ">> \o call.b
                 \o (IF call.ex THEN <<",", " ", "$space: hsl">> ELSE <<>>)
                 \o Pad(call) \o <<")">>

RenderAll(calls) == Flatten([i \in DOMAIN calls |-> Render(calls[i]) \o <<";">>])

Call(f, a, b, sp, ex) == [f |-> f, a |-> a, b |-> b, sp |-> sp, ex |-> ex]

Channels == {<<"\"hue\"">>, <<"\"saturation\"">>, <<"\"lightness\"">>}

\* calls whose arguments are plain values
FlatCalls ==
    {Call("round", <<"$x">>, <<>>, sp, FALSE) : sp \in BOOLEAN}
        \cup {Call("div", <<"$x">>, <<"$y">>, sp, FALSE) : sp \in BOOLEAN}
        \cup {Call("unit", <<"$x">>, <<>>, sp, FALSE) : sp \in BOOLEAN}
        \cup {Call("channel", <<"$c">>, ch, FALSE, FALSE) : ch \in Channels}
        \cup {Call("channel", <<"$c">>, <<"\"hue\"">>, TRUE, TRUE),
              Call("channel", <<"$c">>, <<"\"lightness\"">>, FALSE, TRUE)}

\* the arguments that are themselves calls
InnerRound == Render(Call("round", <<"$x">>, <<>>, FALSE, FALSE))
InnerDiv == Render(Call("div", <<"$x">>, <<"$y">>, FALSE, FALSE))
InnerUnit == Render(Call("unit", <<"$x">>, <<>>, FALSE, FALSE))
InnerHue == Render(Call("channel", <<"$c">>, <<"\"hue\"">>, FALSE, FALSE))

\* calls with a call as an argument
NestedCalls ==
    {Call("round", InnerDiv, <<>>, FALSE, FALSE),
     Call("div", InnerRound, <<"$y">>, FALSE, FALSE),
     Call("div", InnerDiv, <<"$y">>, FALSE, FALSE),
     Call("div", <<"$x">>, InnerDiv, FALSE, FALSE),
     Call("div", InnerHue, <<"$y">>, FALSE, FALSE),
     Call("unit", InnerUnit, <<>>, FALSE, FALSE),
     Call("unit", InnerDiv, <<>>, FALSE, FALSE),
     Call("channel", InnerRound, <<"\"hue\"">>, FALSE, FALSE)}

Calls == FlatCalls \cup NestedCalls

Stylesheets == UNION {[1..n -> Calls] : n \in 1..MaxCalls}

\* Init of the shim: the source file holds a stylesheet
InitShim ==
    /\ scss_calls \in Stylesheets
    /\ scss_source = <<>>
    /\ shim_done = FALSE
    /\ FetchIdle
    /\ SvgIdle
    /\ PluginIdle

\* save_to, lines 230-260: the source is read and the substitutions applied
\* (the stylesheets here hold no svg-load, which _inline_svg_loads would touch)
save_to_shim ==
    /\ ~shim_done
    /\ scss_source' = Shim(RenderAll(scss_calls))
    /\ shim_done' = TRUE
    /\ UNCHANGED <<scss_calls, fetch_vars, svg_vars, plugin_vars>>

\* the next build: the source file is read again
next_build ==
    /\ shim_done
    /\ scss_source' = <<>>
    /\ shim_done' = FALSE
    /\ UNCHANGED <<scss_calls, fetch_vars, svg_vars, plugin_vars>>

NextShim == save_to_shim \/ next_build

SpecShim == InitShim /\ [][NextShim]_vars

----------------------------------------------------------------------------
(* ExtraSassPlugin: on_config, the hooks, _entry_point and _build_entry     *)

default_mdi == <<"https://raw.githubusercontent.com/lmmx/MaterialDesign-SVG/master/svg", "/">>
default_oct == <<"https://raw.githubusercontent.com/primer/octicons/main/icons", "/">>

\* str.rstrip("/")
RECURSIVE RStripSlash(_)
RStripSlash(s) ==
    IF s # <<>> /\ s[Len(s)] = "/" THEN RStripSlash(SubSeq(s, 1, Len(s) - 1))
    ELSE s

\* `x or y`
Or(x, y) == IF x = <<>> \/ x = NoneValue THEN y ELSE x

\* the values mkdocs.yml gives the two options
MdiConfigs == {default_mdi, <<>>, <<"/">>, <<"https://mdi">>}
OctConfigs == {default_oct, <<>>}

\* what the file system and the compiler do to one _build_entry: whether
\* extra_sass/ holds a style file, and whether save_to raises
BuildEnv == [found : BOOLEAN, save_raises : BOOLEAN]

\* lines 107-126
build_entry(mdi, oct, is_strict, env) ==
    IF ~env.found
    THEN [raised |-> FALSE, compiled |-> FALSE, entry |-> [kind |-> "NoSassEntry"]]
    ELSE IF env.save_raises
    THEN [raised |-> is_strict, compiled |-> TRUE,
          entry |-> [kind |-> "Available", relative_path |-> <<>>,
                     mdi |-> OrEmpty(mdi), oct |-> OrEmpty(oct)]]
    ELSE [raised |-> FALSE, compiled |-> TRUE,
          entry |-> [kind |-> "Available",
                     relative_path |-> <<"assets/stylesheets", "/", "extra-style.min.css">>,
                     mdi |-> OrEmpty(mdi), oct |-> OrEmpty(oct)]]

\* _entry_point without its `is None` test: every call builds
get_entry_point_uncached(cached, mdi, oct, is_strict, env) ==
    LET b == build_entry(mdi, oct, is_strict, env)
    IN  [built |-> TRUE, compiled |-> b.compiled, raised |-> b.raised,
         cached |-> IF b.raised THEN cached ELSE b.entry]

\* lines 99-105: the entry is built when none is cached; an exception of
\* _build_entry leaves __entry_point as it was
get_entry_point(cached, mdi, oct, is_strict, env) ==
    IF cached.kind = "None"
    THEN LET b == build_entry(mdi, oct, is_strict, env)
         IN  [built |-> TRUE, compiled |-> b.compiled, raised |-> b.raised,
              cached |-> IF b.raised THEN cached ELSE b.entry]
    ELSE [built |-> FALSE, compiled |-> FALSE, raised |-> FALSE, cached |-> cached]

\* lines 163-165, 204-206
relative_path(entry) ==
    IF entry.kind = "Available" THEN entry.relative_path ELSE <<>>

InitPlugin ==
    /\ entry_point = [kind |-> "None"]
    /\ plugin_mdi = NoneValue
    /\ plugin_oct = NoneValue
    /\ strict \in BOOLEAN
    /\ builds = 0
    /\ raises = 0
    /\ hooks = 0
    /\ hook_result = NoHook
    /\ configured = FALSE
    /\ FetchIdle
    /\ SvgIdle
    /\ ShimIdle

\* lines 57-73; mkdocs loads the configuration (and its `strict`) before it
on_config(mdi_cfg, oct_cfg, is_strict) ==
    /\ entry_point' = [kind |-> "None"]
    /\ plugin_mdi' = Or(RStripSlash(mdi_cfg), plugin_mdi)
    /\ plugin_oct' = Or(RStripSlash(oct_cfg), plugin_oct)
    /\ strict' = is_strict
    /\ builds' = 0
    /\ raises' = 0
    /\ hooks' = 0
    /\ hook_result' = NoHook
    /\ configured' = TRUE
    /\ UNCHANGED <<fetch_vars, svg_vars, shim_vars>>

Hook(name, env) ==
    LET e == get_entry_point(entry_point, plugin_mdi, plugin_oct, strict, env)
    IN  /\ configured
        /\ hooks < MaxHooks
        /\ entry_point' = e.cached
        /\ builds' = builds + (IF e.built THEN 1 ELSE 0)
        /\ raises' = raises + (IF e.raised THEN 1 ELSE 0)
        /\ hooks' = hooks + 1
        /\ hook_result' =
               [hook |-> name, built |-> e.built, compiled |-> e.compiled,
                raised |-> e.raised,
                link |-> IF e.raised \/ name = "on_serve" THEN <<>>
                         ELSE relative_path(e.cached)]
        /\ UNCHANGED <<plugin_mdi, plugin_oct, strict, configured, fetch_vars,
                       svg_vars, shim_vars>>

\* lines 75-78
on_serve(env) == Hook("on_serve", env)

\* lines 80-95: the link is injected when the entry has a relative path
on_post_page(env) == Hook("on_post_page", env)

NextPlugin ==
    \/ \E m \in MdiConfigs, o \in OctConfigs, s \in BOOLEAN : on_config(m, o, s)
    \/ \E env \in BuildEnv : on_serve(env)
    \/ \E env \in BuildEnv : on_post_page(env)

SpecPlugin == InitPlugin /\ [][NextPlugin]_vars

----------------------------------------------------------------------------
(* The claims                                                              *)

\* whether a replacement is a comment from "/*" to its last token "*/", with
\* no data URI
IsComment(out) ==
    /\ Len(out) >= 2
    /\ out[1] = "/*"
    /\ out[Len(out)] = "*/"
    /\ " url('data:image/svg+xml;base64," \notin Range(out)

\* whether the directive, which follows "/* " in a replacement, lies wholly
\* before the first "*/", the end of the comment that "/*" opens
DirectiveInComment(out, full_text) ==
    /\ Len(out) >= 2 + Len(full_text)
    /\ out[1] = "/*"
    /\ SubSeq(out, 3, 2 + Len(full_text)) = full_text
    /\ IndexFrom(out, 2, "*/") > 2 + Len(full_text)

\* the kinds of call that obtained the SVG content
Obtained == {"hit", "cached", "write_failed"}

\* C1: whatever the outcome of the cache lookup, the cache read, the deletion
\* of the cache file, the network request and the cache write, no replacer
\* call raises, _inline_svg_loads returns, and a directive whose SVG could
\* not be obtained is replaced by a comment.
C1_FailureFallback ==
    /\ sub_result # "raised"
    /\ ~rep.raised
    /\ (rep.fetch.kind \notin Obtained \cup {"none"} => IsComment(rep.out))

\* C2: a call that finds the cache file of its URL and can read it returns
\* the base64 encoding of the content of that file, makes no network request,
\* and leaves every cache file as it was.
C2_CacheHit ==
    [][last'.kind = "hit" =>
          /\ last'.ret = b64encode(cache[CacheFile(last'.url)])
          /\ ~last'.net
          /\ cache' = cache]_vars

\* C3: a call that finds the cache file of its URL but cannot read it removes
\* the file and downloads the URL again; when the download and the cache write
\* succeed it returns the base64 of the fresh content and the cache file holds
\* exactly that content (so that the next call finds it).
C3_CorruptionRecovery ==
    last.existed /\ last.kind # "hit" =>
        /\ ~last.raised
        /\ last.net
        /\ (last.kind = "fetch_failed" => CacheFile(last.url) \notin DOMAIN cache)
        /\ (last.kind = "cached" =>
               /\ last.ret = Base64Of(last.data)
               /\ CacheFile(last.url) \in DOMAIN cache
               /\ cache[CacheFile(last.url)] = Utf8Encode(last.data))

\* C4: the cache file is a function of the URL alone, one file per URL; after
\* a call for a URL downloaded and cached, every later call for that URL
\* returns the same base64 string without a network request, whatever calls
\* for other URLs came in between.  (Stated of the later calls that read the
\* cache file: the claim is not held against an unreadable file.)
C4_KeyedByUrl ==
    /\ \A u, v \in Urls : (CacheFile(u) = CacheFile(v)) <=> (u = v)
    /\ (pinned.later /\ last.url = pinned.url /\ last.kind = "hit" =>
           /\ ~last.net
           /\ last.ret = pinned.ret)

\* C5: a directive that resolves to a URL is replaced by the inlined data URI
\* whenever its content was obtained, from the cache or by a download, and by
\* a failure comment only when the content could not be fetched.
C5_InlineExactlyWhenObtained ==
    rep.branch \in {"http", "mdi", "octicons"} /\ ~rep.raised =>
        /\ (rep.fetch.kind \in Obtained =>
               rep.out = Inlined(FullText(rep.raw), rep.fetch.ret))
        /\ (IsComment(rep.out) => rep.fetch.kind = "fetch_failed")

\* the calls whose arguments are plain values
IsFlat(calls) == \A i \in DOMAIN calls : calls[i] \in FlatCalls

ShimmedNames == {"math.round(", "math.div(", "math.unit(", "color.channel("}

\* what the claim says a flat call is rewritten to
Rewritten(call) ==
    CASE call.f = "round" ->
             <<"round(">> \o Pad(call) \o call.a \o Pad(call) \o <<")">>
      [] call.f = "div" ->
             <<"(">> \o call.a \o <<" ", "/", " ">> \o call.b \o <<")">>
      [] call.f = "unit" -> <<"unit(">> \o call.a \o <<")">>
      [] call.f = "channel" ->
             (CASE call.b = <<"\"hue\"">> -> <<"hue(">>
                [] call.b = <<"\"saturation\"">> -> <<"saturation(">>
                [] call.b = <<"\"lightness\"">> -> <<"lightness(">>)
                 \o call.a \o <<")">>

RewrittenAll(calls) ==
    Flatten([i \in DOMAIN calls |-> Rewritten(calls[i]) \o <<";">>])

\* C6, as stated: whatever stylesheet is written from the known calls, the
\* text save_to's substitutions leave holds no math.round(, math.div(,
\* math.unit( or color.channel( any more.
C6_NoCallRemains ==
    shim_done => Range(scss_source) \cap ShimmedNames = {}

\* C6, amended: when no call has a call as an argument, the substitutions
\* turn math.round( into round(, math.div(a, b) into (a / b), math.unit(x)
\* into unit(x) and color.channel(c, "<name>" ...) into <name>(c), and none
\* of the four names remains.
C6_FlatCallsRewritten ==
    shim_done /\ IsFlat(scss_calls) =>
        /\ scss_source = RewrittenAll(scss_calls)
        /\ Range(scss_source) \cap ShimmedNames = {}

\* a stylesheet of flat calls, a math.div and a color.channel with a $space
\* argument among them, has been rewritten
C6_Witness ==
    /\ shim_done
    /\ IsFlat(scss_calls)
    /\ \E i \in DOMAIN scss_calls : scss_calls[i].f = "div" /\ scss_calls[i].sp
    /\ \E i \in DOMAIN scss_calls : scss_calls[i].f = "channel" /\ scss_calls[i].ex

\* C7, as stated: between two on_config calls _build_entry runs at most once,
\* whatever the hooks, the outcome of the compilation and `strict`.
C7_OncePerBuild == builds <= 1

\* C7, amended: between two on_config calls at most one _build_entry run
\* returns, and the entry it returns is cached and reused by every later hook;
\* a run raises only under `strict`, it makes the hook raise and caches
\* nothing, so that the next hook builds again.
C7_OnceUnlessStrictRaise ==
    /\ builds - raises <= 1
    /\ (raises > 0 => strict)
    /\ (entry_point.kind = "None" <=> builds = raises)
    /\ (hook_result.raised => hook_result.built /\ strict)
    /\ (~strict => builds <= 1)

\* all the hooks of a build have run, one of them built the entry and the
\* later ones reused it
C7_Witness ==
    /\ hooks = MaxHooks
    /\ builds = 1
    /\ raises = 0
    /\ ~hook_result.built
    /\ hook_result.hook = "on_post_page"
    /\ hook_result.link # <<>>

\* the branch and the URL the claim gives a path
ClaimedBranch(path, mdi, oct) ==
    IF StartsWith(path, "http://") \/ StartsWith(path, "https://") THEN "http"
    ELSE IF mdi # <<>> /\ StartsWith(path, "@mdi/svg/svg/") THEN "mdi"
    ELSE IF oct # <<>> /\ "octicons" \in Range(path) THEN "octicons"
    ELSE "unknown"

ClaimedUrl(path, mdi, oct) ==
    CASE ClaimedBranch(path, mdi, oct) = "http" -> path
      [] ClaimedBranch(path, mdi, oct) = "mdi" -> mdi \o <<"/">> \o basename(path)
      [] ClaimedBranch(path, mdi, oct) = "octicons" ->
             oct \o <<"/">> \o basename(path)
      [] OTHER -> <<>>

\* C8: every svg-load match is replaced, by the first of: the fetch of the
\* path itself (http:// or https://), of <mdi_base>/<basename> (an MDI base
\* URL and a path under @mdi/svg/svg/), of <octicons_base>/<basename> (an
\* octicons base URL and a path holding "octicons"), or a comment without any
\* fetch; and in the replacement the directive stands only inside a comment.
C8_ResolutionTotalAndOrdered ==
    rep.branch # "none" =>
        LET path == Strip(rep.raw)
        IN  /\ ~rep.raised
            /\ rep.branch = ClaimedBranch(path, rep.mdi, rep.oct)
            /\ rep.url = ClaimedUrl(path, rep.mdi, rep.oct)
            /\ (rep.branch = "unknown" <=> rep.fetch = NoCall)
            /\ (rep.branch # "unknown" => rep.fetch.url = rep.url)
            /\ DirectiveInComment(rep.out, FullText(rep.raw))

\* C9: a call that returns the failure signal because the request failed
\* leaves no cache file for its URL and the files of the other URLs as they
\* were; and whatever file a call creates or changes holds what that call's
\* successful download returned (so that every file holds what was there
\* before the run or what a successful download of its URL returned).
C9_NoCachePoisoning ==
    [][/\ (last'.kind = "fetch_failed" =>
              CacheFile(last'.url) \notin DOMAIN cache')
       /\ \A f \in (DOMAIN cache \cup DOMAIN cache') \ {CacheFile(last'.url)} :
              f \in DOMAIN cache /\ f \in DOMAIN cache' /\ cache'[f] = cache[f]
       /\ \A f \in DOMAIN cache' :
              \/ f \in DOMAIN cache /\ cache'[f] = cache[f]
              \/ /\ f = CacheFile(last'.url)
                 /\ last'.kind \in {"cached", "write_failed"}
                 /\ cache'[f] = Utf8Encode(last'.data)]_vars

\* C10: a call whose download succeeds and whose cache write raises returns
\* the base64 of the downloaded content all the same, and the next call for
\* that URL downloads again and does not fail.  (A next call that finds an
\* unreadable file and cannot unlink it is C1's, and is left aside.)
C10_WriteFailureTolerated ==
    [][/\ (last'.kind = "write_failed" =>
              ~last'.raised /\ last'.ret = Base64Of(last'.data))
       /\ (last.kind = "write_failed" /\ last'.url = last.url
               /\ last'.kind # "unlink_raised" =>
              last'.net)]_vars

====
